---- MODULE Spec2Model ----
(***************************************************************************)
(* Order lifecycle engine of the order-management service:                 *)
(* OrdersService (src/src/orders/orders.service.ts) on top of the          *)
(* in-memory OrderRepository, the mock InventoryService, the mock          *)
(* CustomerService and the MessagingService.                               *)
(*                                                                         *)
(* Every request is a small process: one step per stretch of code between  *)
(* two awaits that touch shared state (the order store or the inventory    *)
(* cache).  Under Spec a request runs to completion before the next one    *)
(* starts.                                                                 *)
(***************************************************************************)
EXTENDS Integers, Sequences, FiniteSets, TLC

\* ---------------------------------------------------------------- bounds
MaxOrders   == 2      \* number of order ids uuidv4() hands out
MaxOps      == 4      \* number of requests in one behaviour
MaxItems    == 2      \* longest item list of a request
MaxQuantity == 2      \* largest quantity of an item of a request
MaxUpdateItems == 1   \* longest item list of an update request
MaxConcurrentOps == 3   \* number of requests in one behaviour of SpecConcurrent

\* ------------------------------------------------------- enums of the code
CREATED    == "created"
PROCESSING == "processing"
SHIPPED    == "shipped"
DELIVERED  == "delivered"
CANCELED   == "canceled"
OrderStatus == {CREATED, PROCESSING, SHIPPED, DELIVERED, CANCELED}

ORDER_CREATED      == "order.created"
ORDER_UPDATED      == "order.updated"
ORDER_SHIPPED      == "order.shipped"
ORDER_DELIVERED    == "order.delivered"
ORDER_CANCELED     == "order.canceled"
INVENTORY_RESERVED == "inventory.reserved"
INVENTORY_RELEASED == "inventory.released"

\* variant: DELIVERED is not terminal, a delivered order can still be canceled
TransitionsDeliveredCancelable ==
  [s \in OrderStatus |->
     CASE s = PROCESSING -> {SHIPPED, CANCELED}
       [] s = SHIPPED    -> {DELIVERED, CANCELED}
       [] s = DELIVERED  -> {CANCELED}
       [] s = CANCELED   -> {PROCESSING}
       [] s = CREATED    -> {PROCESSING}]

TransitionsCanceledToCreated ==
  [s \in OrderStatus |->
     CASE s = PROCESSING -> {SHIPPED, CANCELED}
       [] s = SHIPPED    -> {DELIVERED, CANCELED}
       [] s = DELIVERED  -> {}
       [] s = CANCELED   -> {PROCESSING, CREATED}
       [] s = CREATED    -> {PROCESSING}]

ORDER_STATUS_TRANSITIONS ==
  [s \in OrderStatus |->
     CASE s = PROCESSING -> {SHIPPED, CANCELED}
       [] s = SHIPPED    -> {DELIVERED, CANCELED}
       [] s = DELIVERED  -> {}
       [] s = CANCELED   -> {PROCESSING}
       [] s = CREATED    -> {PROCESSING}]

\* ------------------------------------------------ collaborators (mock mode)
\* pLimited is the product setupMockInventory gives a limited stock; pNone is
\* the id for which getProductById answers null (it has no inventory entry).
pLimited == "623e4567"
pNone    == "00000000"
Products == {pLimited, pNone}

\* cKnown is any customer id the mock knows, cNone the id it answers null for.
cKnown == "c-123e4567"
cNone  == "c-00000000"
Customers == {cKnown, cNone}

Undefined == "undefined"
Null      == "null"

\* variant: the mock knows every id
getCustomerByIdAlways(id) == id

\* getCustomerById, mock branch: null for the all-zero id, a customer otherwise
getCustomerById(id) == IF id = cNone THEN Null ELSE id

\* price of a product; the mock draws it once per call, here it is fixed and
\* integral per product
ProductPrice(p) == IF p = pLimited THEN 5 ELSE 7

\* getProductById, mock branch: null for the all-zero id
getProductById(p) == IF p = pNone THEN Null ELSE p

\* setupMockInventory: "Set one product with limited inventory for testing"
LimitedStock == 3
setupMockInventory == [p \in {pLimited} |-> LimitedStock]

\* getInventory, mock branch: inventoryCache.get(productId) || 0
getInventory(cache, p) == IF p \in DOMAIN cache THEN cache[p] ELSE 0

MapSet(f, k, v) == [x \in (DOMAIN f) \cup {k} |-> IF x = k THEN v ELSE f[x]]
\* variant: delete leaves the entry in the map
MapDeleteNothing(f, k) == f

MapDelete(f, k) == [x \in (DOMAIN f) \ {k} |-> f[x]]

\* reserveInventory, mock branch: the cache after the call
reserveInventoryCacheUnchecked(cache, p, q) ==
  MapSet(cache, p, getInventory(cache, p) - q)

reserveInventoryCache(cache, p, q) ==
  IF getInventory(cache, p) < q THEN cache
  ELSE MapSet(cache, p, getInventory(cache, p) - q)

\* reserveInventory, mock branch: the boolean it returns
reserveInventoryResult(cache, p, q) == ~(getInventory(cache, p) < q)

\* variant: the released quantity replaces the count instead of being added
releaseInventoryCacheOverwrite(cache, p, q) == MapSet(cache, p, q)

\* releaseInventory, mock branch: the cache after the call (it returns true)
releaseInventoryCache(cache, p, q) == MapSet(cache, p, getInventory(cache, p) + q)

\* ------------------------------------------------------------ request data
Quantities == 1..MaxQuantity
OrderItemDto == [productId : Products, quantity : Quantities]
ItemLists == UNION {[1..n -> OrderItemDto] : n \in 1..MaxItems}
UpdateItemLists == UNION {[1..n -> OrderItemDto] : n \in 1..MaxUpdateItems}
NoItems == <<>>

OrderIds == 1..MaxOrders
Slots == {1}

ShippingDtos == {"1Z999-UPS"}
NotesValues  == {"back door"}

NoOrder == [id |-> 0, customerId |-> Undefined, items |-> <<>>, totalPrice |-> 0,
            status |-> Undefined, createdAt |-> 0, updatedAt |-> 0,
            shippingInfo |-> Null, notes |-> Undefined]

IdleReq == [op |-> "none", pc |-> "idle", id |-> 0, customerId |-> Undefined,
            items |-> <<>>, hasItems |-> FALSE, notes |-> Undefined,
            status |-> Undefined, shipping |-> Null,
            existing |-> NoOrder, newOrder |-> NoOrder, i |-> 0, log |-> <<>>,
            res |-> "none", ret |-> NoOrder,
            preOrders |-> <<>>, preInv |-> <<>>]

\* ------------------------------------------------------------ request validation
\* class-validator ArrayMinSize(min) on an items array
ArrayMinSize(min, items) == Len(items) >= min

\* CreateOrderDto.items: @IsArray() @ArrayMinSize(1)
ValidateCreateOrderDto(items) == ArrayMinSize(1, items)

\* variant: items of the update body are not checked for a minimum size
ValidateUpdateOrderDtoNoMinSize(hasItems, items) == TRUE

\* UpdateOrderDto = PartialType(CreateOrderDto): items may be absent, and is
\* validated like CreateOrderDto.items when it is present
ValidateUpdateOrderDto(hasItems, items) == hasItems => ArrayMinSize(1, items)

\* a request body the global ValidationPipe refused: the handler is not
\* called, the caller gets BadRequestException
RejectedByPipe == [IdleReq EXCEPT !.op = "ValidationPipe", !.pc = "done", !.res = "BadRequest"]

VARIABLES
  orders,          \* OrderRepository.orders: Map<string, Order>
  inventoryCache,  \* InventoryService.inventoryCache: Map<string, number>
  uuid,            \* number of order ids uuidv4() has produced
  now,             \* the clock read by new Date()
  req,             \* the requests: arguments, position, locals, effects so far
  useRealBroker,   \* configuration USE_REAL_MESSAGE_BROKER === 'true'
  useRealInventoryApi, \* configuration USE_REAL_INVENTORY_API === 'true'
  channel          \* MessagingService.channel is set (connect created a channel)

vars == <<orders, inventoryCache, uuid, now, req, useRealBroker, useRealInventoryApi, channel>>

\* ------------------------------------------------------------ effect log
\* What a request did, in order: inventory calls, store writes, publishEvent calls.
LogCall(fn, p, q, ok) ==
  [kind |-> fn, key |-> Undefined, productId |-> p, quantity |-> q, ok |-> ok, order |-> NoOrder]
LogStore(fn, o) ==
  [kind |-> fn, key |-> Undefined, productId |-> Undefined, quantity |-> 0, ok |-> TRUE, order |-> o]
LogOrderEvent(key, o) ==
  [kind |-> "publishEvent", key |-> key, productId |-> Undefined, quantity |-> 0, ok |-> TRUE, order |-> o]
LogInventoryEvent(key, p, q) ==
  [kind |-> "publishEvent", key |-> key, productId |-> p, quantity |-> q, ok |-> TRUE, order |-> NoOrder]

\* MessagingService.publishEvent: what it may return.  Without a channel (mock
\* broker) it returns true; with a channel it returns what channel.publish
\* returns, or false when that throws.
PublishOutcomes == IF channel THEN BOOLEAN ELSE {TRUE}

\* the publishEvent calls of one step, each with the boolean it returned
WithOutcomes(events, oks) == [i \in 1..Len(events) |-> [events[i] EXCEPT !.ok = oks[i]]]

\* variant: the DELIVERED case is missing from the switch
OrderEventKeyNoDelivered(status) ==
  CASE status = CREATED   -> ORDER_CREATED
    [] status = SHIPPED   -> ORDER_SHIPPED
    [] status = CANCELED  -> ORDER_CANCELED
    [] OTHER              -> ORDER_UPDATED

\* publishOrderEvent: the routing key chosen from the status argument
OrderEventKey(status) ==
  CASE status = CREATED   -> ORDER_CREATED
    [] status = SHIPPED   -> ORDER_SHIPPED
    [] status = DELIVERED -> ORDER_DELIVERED
    [] status = CANCELED  -> ORDER_CANCELED
    [] OTHER              -> ORDER_UPDATED

publishOrderEvent(status, o) == LogOrderEvent(OrderEventKey(status), o)

publishInventoryEvent(eventType, p, q) == LogInventoryEvent(eventType, p, q)

\* ------------------------------------------------------------ repository
RepoFindById(id) == IF id \in DOMAIN orders THEN orders[id] ELSE NoOrder

\* variant: the merge stamps createdAt as well as updatedAt
RepoMergeStampsCreatedAt(existingOrder, fields, data) ==
  [existingOrder EXCEPT
     !.customerId   = IF "customerId" \in fields THEN data.customerId ELSE @,
     !.items        = IF "items" \in fields THEN data.items ELSE @,
     !.notes        = IF "notes" \in fields THEN data.notes ELSE @,
     !.status       = IF "status" \in fields THEN data.status ELSE @,
     !.shippingInfo = IF "shippingInfo" \in fields THEN data.shippingInfo ELSE @,
     !.createdAt    = now,
     !.updatedAt    = now]

\* variant: supplied items are appended to the existing ones instead of replacing them
RepoMergeAppendItems(existingOrder, fields, data) ==
  [existingOrder EXCEPT
     !.customerId   = IF "customerId" \in fields THEN data.customerId ELSE @,
     !.items        = IF "items" \in fields THEN @ \o data.items ELSE @,
     !.notes        = IF "notes" \in fields THEN data.notes ELSE @,
     !.status       = IF "status" \in fields THEN data.status ELSE @,
     !.shippingInfo = IF "shippingInfo" \in fields THEN data.shippingInfo ELSE @,
     !.updatedAt    = now]

\* OrderRepository.update: { ...existingOrder, ...orderData, updatedAt: new Date() }
\* orderData is given as the set of fields it carries and a record of values.
RepoMerge(existingOrder, fields, data) ==
  [existingOrder EXCEPT
     !.customerId   = IF "customerId" \in fields THEN data.customerId ELSE @,
     !.items        = IF "items" \in fields THEN data.items ELSE @,
     !.notes        = IF "notes" \in fields THEN data.notes ELSE @,
     !.status       = IF "status" \in fields THEN data.status ELSE @,
     !.shippingInfo = IF "shippingInfo" \in fields THEN data.shippingInfo ELSE @,
     !.updatedAt    = now]

\* ------------------------------------------------------------ helpers
RECURSIVE SumSeq(_)
SumSeq(s) == IF s = <<>> THEN 0 ELSE Head(s) + SumSeq(Tail(s))

\* variant: totalPrice = instead of totalPrice +=, the last item wins
calculateTotalPriceLastItem(items) ==
  IF items = <<>> THEN 0
  ELSE ProductPrice(items[Len(items)].productId) * items[Len(items)].quantity

\* calculateTotalPrice: totalPrice += product.price * item.quantity
RECURSIVE calculateTotalPrice(_)
calculateTotalPrice(items) ==
  IF items = <<>> THEN 0
  ELSE ProductPrice(Head(items).productId) * Head(items).quantity
       + calculateTotalPrice(Tail(items))

\* variant: a new order starts in status CREATED
createOrderCreated(id, customerId, items, totalPrice) ==
  [id |-> id, customerId |-> customerId, items |-> items, totalPrice |-> totalPrice,
   status |-> CREATED, createdAt |-> now, updatedAt |-> now,
   shippingInfo |-> Null, notes |-> Undefined]

\* createOrderWithOrderItems
createOrderWithOrderItems(id, customerId, items, totalPrice) ==
  [id |-> id, customerId |-> customerId, items |-> items, totalPrice |-> totalPrice,
   status |-> PROCESSING, createdAt |-> now, updatedAt |-> now,
   shippingInfo |-> Null, notes |-> Undefined]

\* variant: the table is looked up under the new status and searched for the current one
validateStatusTransitionSwapped(currentStatus, newStatus) ==
  currentStatus \in ORDER_STATUS_TRANSITIONS[newStatus]

\* variant: a request for the status the order already has passes the validation
validateStatusTransitionSameOk(currentStatus, newStatus) ==
  newStatus = currentStatus \/ newStatus \in ORDER_STATUS_TRANSITIONS[currentStatus]

\* validateStatusTransition: TRUE when it does not throw
validateStatusTransition(currentStatus, newStatus) ==
  newStatus \in ORDER_STATUS_TRANSITIONS[currentStatus]

\* OrdersService.findById
findById(id) == RepoFindById(id)

\* OrdersController: what the caller of the HTTP layer gets for a result of the
\* service (null and false become NotFoundException, a thrown
\* BadRequestException goes through)
ControllerResponse(res) ==
  CASE res \in {"null", "false"} -> "NotFoundException"
    [] res = "BadRequest"        -> "BadRequestException"
    [] res = "Error"             -> "InternalServerError"
    [] OTHER                     -> "success"

\* OrdersController.create: every error the service throws is caught and
\* thrown again as BadRequestException(error.message)
CreateResponse(res) ==
  IF res = "order" THEN "success" ELSE "BadRequestException"

Running(s) == req[s].pc \notin {"idle", "done"}
NoneRunning == \A s \in Slots : ~Running(s)

Set(s, r) == req' = [req EXCEPT ![s] = r]
Finish(s, r, res, ret) == Set(s, [r EXCEPT !.pc = "done", !.res = res, !.ret = ret])

\* ------------------------------------------------------------ initial state
Init ==
  /\ orders = <<>>
  /\ inventoryCache = setupMockInventory
  /\ uuid = 0
  /\ now = 0
  /\ req = [s \in Slots |-> IdleReq]
  /\ useRealBroker = FALSE
  /\ useRealInventoryApi = FALSE
  /\ channel = FALSE

\* the same service configured with a real broker, whose channel may refuse or
\* throw on any publish
InitBroker ==
  /\ orders = <<>>
  /\ inventoryCache = setupMockInventory
  /\ uuid = 0
  /\ now = 0
  /\ req = [s \in Slots |-> IdleReq]
  /\ useRealBroker = TRUE
  /\ useRealInventoryApi = FALSE
  /\ channel = TRUE

\* the same service configured with the real inventory service: its counts are
\* kept as the mock keeps them, and any call of it may also fail with an
\* error that is not the 404 or 400 the client handles
InitRealApi ==
  /\ orders = <<>>
  /\ inventoryCache = setupMockInventory
  /\ uuid = 0
  /\ now = 0
  /\ req = [s \in Slots |-> IdleReq]
  /\ useRealBroker = FALSE
  /\ useRealInventoryApi = TRUE
  /\ channel = FALSE

\* A request arrives; under Spec only when no other request is running.
Begin(s, r) ==
  /\ NoneRunning
  /\ now < MaxOps
  /\ now' = now + 1
  /\ Set(s, [r EXCEPT !.preOrders = orders, !.preInv = inventoryCache])
  /\ UNCHANGED <<orders, inventoryCache, uuid, useRealBroker, useRealInventoryApi, channel>>

\* ------------------------------------------------------------ inventory API errors
\* whether a call of the inventory service throws: only the real API does
ApiFailures == IF useRealInventoryApi THEN BOOLEAN ELSE {FALSE}

\* the error leaves the handler: nothing catches it but create's
\* log-and-rethrow
ApiError(s) ==
  /\ Finish(s, req[s], "Error", NoOrder)
  /\ UNCHANGED <<orders, inventoryCache, uuid, now, useRealBroker, useRealInventoryApi, channel>>

\* ------------------------------------------------------------ create
StartCreate(s) ==
  \E c \in Customers, items \in ItemLists \cup {NoItems} :
    /\ uuid < MaxOrders
    /\ IF ValidateCreateOrderDto(items)
         THEN Begin(s, [IdleReq EXCEPT !.op = "create", !.pc = "c_customer",
                                       !.customerId = c, !.items = items, !.hasItems = TRUE])
         ELSE Begin(s, [RejectedByPipe EXCEPT !.customerId = c, !.items = items, !.hasItems = TRUE])

\* lines 61-64
CreateCustomer(s) ==
  LET r == req[s] IN
  /\ r.pc = "c_customer"
  /\ IF getCustomerById(r.customerId) = Null
       THEN Finish(s, r, "BadRequest", NoOrder)
       ELSE Set(s, [r EXCEPT !.pc = "c_validate", !.i = 1])
  /\ UNCHANGED <<orders, inventoryCache, uuid, now, useRealBroker, useRealInventoryApi, channel>>

\* variant: the validation loop stops after the first item
CreateValidateFirstOnly(s) ==
  LET r == req[s]
      item == r.items[r.i] IN
  /\ r.pc = "c_validate"
  /\ IF getProductById(item.productId) = Null
       THEN Finish(s, r, "BadRequest", NoOrder)
       ELSE IF getInventory(inventoryCache, item.productId) < item.quantity
         THEN Finish(s, r, "BadRequest", NoOrder)
         ELSE Set(s, [r EXCEPT !.pc = "c_build"])
  /\ UNCHANGED <<orders, inventoryCache, uuid, now, useRealBroker, useRealInventoryApi, channel>>

\* lines 67-79, one item per step
CreateValidate(s) ==
  LET r == req[s]
      item == r.items[r.i] IN
  /\ r.pc = "c_validate"
  /\ \E fails \in ApiFailures :
       IF fails
         THEN ApiError(s)
         ELSE /\ IF getProductById(item.productId) = Null
                   THEN Finish(s, r, "BadRequest", NoOrder)
                   ELSE IF getInventory(inventoryCache, item.productId) < item.quantity
                     THEN Finish(s, r, "BadRequest", NoOrder)
                     ELSE IF r.i < Len(r.items)
                       THEN Set(s, [r EXCEPT !.i = r.i + 1])
                       ELSE Set(s, [r EXCEPT !.pc = "c_build"])
              /\ UNCHANGED <<orders, inventoryCache, uuid, now, useRealBroker, useRealInventoryApi, channel>>

\* lines 81-83
CreateBuild(s) ==
  LET r == req[s] IN
  /\ r.pc = "c_build"
  /\ \E fails \in ApiFailures :
       IF fails
         THEN ApiError(s)
         ELSE /\ uuid' = uuid + 1
              /\ Set(s, [r EXCEPT !.pc = "c_reserve", !.i = 1,
                                  !.newOrder = createOrderWithOrderItems(uuid + 1, r.customerId, r.items,
                                                                         calculateTotalPrice(r.items))])
              /\ UNCHANGED <<orders, inventoryCache, now, useRealBroker, useRealInventoryApi, channel>>

\* variant: when a reserveInventory call throws, the reservations made for
\* the earlier items are given back
CreateReserveRollsBack(s) ==
  LET r == req[s]
      item == r.items[r.i] IN
  /\ r.pc = "c_reserve"
  /\ \E fails \in ApiFailures :
       IF fails
         THEN /\ inventoryCache' = r.preInv
              /\ Finish(s, r, "Error", NoOrder)
              /\ UNCHANGED <<orders, uuid, now, useRealBroker, useRealInventoryApi, channel>>
         ELSE /\ inventoryCache' = reserveInventoryCache(inventoryCache, item.productId, item.quantity)
              /\ Set(s, [r EXCEPT !.i = r.i + 1,
                                  !.pc = IF r.i < Len(r.items) THEN "c_reserve" ELSE "c_persist",
                                  !.log = Append(@, LogCall("reserveInventory", item.productId, item.quantity,
                                            reserveInventoryResult(inventoryCache, item.productId, item.quantity)))])
              /\ UNCHANGED <<orders, uuid, now, useRealBroker, useRealInventoryApi, channel>>

\* lines 86-88, one item per step; the boolean reserveInventory returns is dropped
CreateReserve(s) ==
  LET r == req[s]
      item == r.items[r.i] IN
  /\ r.pc = "c_reserve"
  /\ \E fails \in ApiFailures :
       IF fails
         THEN ApiError(s)
         ELSE /\ inventoryCache' = reserveInventoryCache(inventoryCache, item.productId, item.quantity)
              /\ Set(s, [r EXCEPT !.i = r.i + 1,
                                  !.pc = IF r.i < Len(r.items) THEN "c_reserve" ELSE "c_persist",
                                  !.log = Append(@, LogCall("reserveInventory", item.productId, item.quantity,
                                            reserveInventoryResult(inventoryCache, item.productId, item.quantity)))])
              /\ UNCHANGED <<orders, uuid, now, useRealBroker, useRealInventoryApi, channel>>

\* variant: the repository answers with the order without putting it in the map
CreatePersistNoStore(s) ==
  LET r == req[s] IN
  /\ r.pc = "c_persist"
  /\ orders' = orders
  /\ Set(s, [r EXCEPT !.pc = "c_publish", !.log = Append(@, LogStore("store.create", r.newOrder))])
  /\ UNCHANGED <<inventoryCache, uuid, now, useRealBroker, useRealInventoryApi, channel>>

\* line 91, OrderRepository.create
CreatePersist(s) ==
  LET r == req[s] IN
  /\ r.pc = "c_persist"
  /\ orders' = MapSet(orders, r.newOrder.id, r.newOrder)
  /\ Set(s, [r EXCEPT !.pc = "c_publish", !.log = Append(@, LogStore("store.create", r.newOrder))])
  /\ UNCHANGED <<inventoryCache, uuid, now, useRealBroker, useRealInventoryApi, channel>>

\* lines 94-96
CreatePublish(s) ==
  LET r == req[s] IN
  /\ r.pc = "c_publish"
  /\ \E oks \in [1..1 -> PublishOutcomes] :
       Finish(s, [r EXCEPT !.log = @ \o WithOutcomes(<<publishOrderEvent(CREATED, r.newOrder)>>, oks)],
              "order", r.newOrder)
  /\ UNCHANGED <<orders, inventoryCache, uuid, now, useRealBroker, useRealInventoryApi, channel>>

\* ------------------------------------------------------------ updateStatus
StartUpdateStatus(s) ==
  \E id \in OrderIds, st \in OrderStatus :
    Begin(s, [IdleReq EXCEPT !.op = "updateStatus", !.pc = "us_find", !.id = id, !.status = st])

\* variant: a delivery releases the inventory as a cancellation does
IsCancelOrDelivered(r) == r.status \in {CANCELED, DELIVERED}

IsCancel(r) == r.status = CANCELED
\* variant: the reactivation test looks at the requested status on both sides
IsReactivationNewStatus(r) == r.status = CANCELED /\ r.status = PROCESSING

IsReactivation(r) == r.existing.status = CANCELED /\ r.status = PROCESSING

\* lines 180-185 and the choice of the branch of lines 187-203
UpdateStatusFind(s) ==
  LET r == req[s]
      existingOrder == RepoFindById(r.id)
      r1 == [r EXCEPT !.existing = existingOrder] IN
  /\ r.pc = "us_find"
  /\ IF existingOrder = NoOrder
       THEN Finish(s, r, "null", NoOrder)
       ELSE IF ~validateStatusTransition(existingOrder.status, r.status)
         THEN Finish(s, r1, "BadRequest", NoOrder)
         ELSE Set(s, [r1 EXCEPT
                !.i = 1,
                !.pc = IF existingOrder.items = <<>> THEN "us_persist"
                       ELSE IF IsCancel(r1) THEN "us_release"
                       ELSE IF IsReactivation(r1) THEN "us_check"
                       ELSE "us_persist"])
  /\ UNCHANGED <<orders, inventoryCache, uuid, now, useRealBroker, useRealInventoryApi, channel>>

\* variant: the count is read when the request arrives and written after the await
UpdateStatusReleaseStaleRead(s) ==
  LET r == req[s]
      item == r.existing.items[r.i] IN
  /\ r.pc = "us_release"
  /\ inventoryCache' = MapSet(inventoryCache, item.productId,
                              getInventory(r.preInv, item.productId) + item.quantity)
  /\ Set(s, [r EXCEPT !.i = r.i + 1,
                      !.pc = IF r.i < Len(r.existing.items) THEN "us_release" ELSE "us_persist",
                      !.log = Append(@, LogCall("releaseInventory", item.productId, item.quantity, TRUE))])
  /\ UNCHANGED <<orders, uuid, now, useRealBroker, useRealInventoryApi, channel>>

\* lines 188-190, one item per step
UpdateStatusRelease(s) ==
  LET r == req[s]
      item == r.existing.items[r.i] IN
  /\ r.pc = "us_release"
  /\ \E fails \in ApiFailures :
       IF fails
         THEN ApiError(s)
         ELSE /\ inventoryCache' = releaseInventoryCache(inventoryCache, item.productId, item.quantity)
              /\ Set(s, [r EXCEPT !.i = r.i + 1,
                                  !.pc = IF r.i < Len(r.existing.items) THEN "us_release" ELSE "us_persist",
                                  !.log = Append(@, LogCall("releaseInventory", item.productId, item.quantity, TRUE))])
              /\ UNCHANGED <<orders, uuid, now, useRealBroker, useRealInventoryApi, channel>>

\* lines 195-200: getInventory and the comparison, for item i
UpdateStatusCheckOffByOne(s) ==
  LET r == req[s]
      item == r.existing.items[r.i] IN
  /\ r.pc = "us_check"
  /\ \E fails \in ApiFailures :
       IF fails
         THEN ApiError(s)
         ELSE /\ IF getInventory(inventoryCache, item.productId) <= item.quantity
                   THEN Finish(s, r, "BadRequest", NoOrder)
                   ELSE Set(s, [r EXCEPT !.pc = "us_reserve"])
              /\ UNCHANGED <<orders, inventoryCache, uuid, now, useRealBroker, useRealInventoryApi, channel>>

UpdateStatusCheck(s) ==
  LET r == req[s]
      item == r.existing.items[r.i] IN
  /\ r.pc = "us_check"
  /\ \E fails \in ApiFailures :
       IF fails
         THEN ApiError(s)
         ELSE /\ IF getInventory(inventoryCache, item.productId) < item.quantity
                   THEN Finish(s, r, "BadRequest", NoOrder)
                   ELSE Set(s, [r EXCEPT !.pc = "us_reserve"])
              /\ UNCHANGED <<orders, inventoryCache, uuid, now, useRealBroker, useRealInventoryApi, channel>>

\* line 201: reserveInventory for item i, result dropped
UpdateStatusReserve(s) ==
  LET r == req[s]
      item == r.existing.items[r.i] IN
  /\ r.pc = "us_reserve"
  /\ \E fails \in ApiFailures :
       IF fails
         THEN ApiError(s)
         ELSE /\ inventoryCache' = reserveInventoryCache(inventoryCache, item.productId, item.quantity)
              /\ Set(s, [r EXCEPT !.i = r.i + 1,
                                  !.pc = IF r.i < Len(r.existing.items) THEN "us_check" ELSE "us_persist",
                                  !.log = Append(@, LogCall("reserveInventory", item.productId, item.quantity,
                                            reserveInventoryResult(inventoryCache, item.productId, item.quantity)))])
              /\ UNCHANGED <<orders, uuid, now, useRealBroker, useRealInventoryApi, channel>>

\* lines 205-211, OrderRepository.update
UpdateStatusPersist(s) ==
  LET r == req[s]
      result == RepoMerge(orders[r.id], {"status"}, [status |-> r.status]) IN
  /\ r.pc = "us_persist"
  /\ IF r.id \notin DOMAIN orders
       THEN /\ Finish(s, r, "null", NoOrder)
            /\ UNCHANGED orders
       ELSE /\ orders' = MapSet(orders, r.id, result)
            /\ Set(s, [r EXCEPT !.pc = "us_publish", !.newOrder = result,
                                !.log = Append(@, LogStore("store.update", result))])
  /\ UNCHANGED <<inventoryCache, uuid, now, useRealBroker, useRealInventoryApi, channel>>

\* variant: the loop over result.items starts at the second item
InventoryEventsSkipFirst(eventType, items) ==
  [i \in 1..(Len(items) - 1) |->
     publishInventoryEvent(eventType, items[i + 1].productId, items[i + 1].quantity)]

RECURSIVE InventoryEvents(_, _)
InventoryEvents(eventType, items) ==
  IF items = <<>> THEN <<>>
  ELSE <<publishInventoryEvent(eventType, Head(items).productId, Head(items).quantity)>>
       \o InventoryEvents(eventType, Tail(items))

\* variant: the inventory events are published before the order event
UpdateStatusPublishInventoryFirst(s) ==
  LET r == req[s]
      result == r.newOrder
      inv == IF IsCancel(r) THEN InventoryEvents(INVENTORY_RELEASED, result.items)
             ELSE IF IsReactivation(r) THEN InventoryEvents(INVENTORY_RESERVED, result.items)
             ELSE <<>> IN
  /\ r.pc = "us_publish"
  /\ \E oks \in [1..(1 + Len(inv)) -> PublishOutcomes] :
       Finish(s, [r EXCEPT !.log = @ \o WithOutcomes(inv \o <<publishOrderEvent(r.status, result)>>, oks)],
              "order", result)
  /\ UNCHANGED <<orders, inventoryCache, uuid, now, useRealBroker, useRealInventoryApi, channel>>

\* variant: a publishEvent call that returns false ends the request with an error
UpdateStatusPublishEscalates(s) ==
  LET r == req[s]
      result == r.newOrder
      inv == IF IsCancel(r) THEN InventoryEvents(INVENTORY_RELEASED, result.items)
             ELSE IF IsReactivation(r) THEN InventoryEvents(INVENTORY_RESERVED, result.items)
             ELSE <<>> IN
  /\ r.pc = "us_publish"
  /\ \E oks \in [1..(1 + Len(inv)) -> PublishOutcomes] :
       Finish(s, [r EXCEPT !.log = @ \o WithOutcomes(<<publishOrderEvent(r.status, result)>> \o inv, oks)],
              IF \A i \in DOMAIN oks : oks[i] THEN "order" ELSE "InternalError",
              IF \A i \in DOMAIN oks : oks[i] THEN result ELSE NoOrder)
  /\ UNCHANGED <<orders, inventoryCache, uuid, now, useRealBroker, useRealInventoryApi, channel>>

\* lines 213-229
UpdateStatusPublish(s) ==
  LET r == req[s]
      result == r.newOrder
      inv == IF IsCancel(r) THEN InventoryEvents(INVENTORY_RELEASED, result.items)
             ELSE IF IsReactivation(r) THEN InventoryEvents(INVENTORY_RESERVED, result.items)
             ELSE <<>> IN
  /\ r.pc = "us_publish"
  /\ \E oks \in [1..(1 + Len(inv)) -> PublishOutcomes] :
       Finish(s, [r EXCEPT !.log = @ \o WithOutcomes(<<publishOrderEvent(r.status, result)>> \o inv, oks)],
              "order", result)
  /\ UNCHANGED <<orders, inventoryCache, uuid, now, useRealBroker, useRealInventoryApi, channel>>

\* ------------------------------------------------------------ update
StartUpdate(s) ==
  \E id \in OrderIds, c \in {Undefined, cNone}, hasItems \in BOOLEAN,
     notes \in NotesValues \cup {Undefined} :
    \E items \in IF hasItems THEN UpdateItemLists \cup {NoItems} ELSE {NoItems} :
      IF ValidateUpdateOrderDto(hasItems, items)
        THEN Begin(s, [IdleReq EXCEPT !.op = "update", !.pc = "u_find", !.id = id, !.customerId = c,
                                      !.items = items, !.hasItems = hasItems, !.notes = notes])
        ELSE Begin(s, [RejectedByPipe EXCEPT !.id = id, !.customerId = c,
                                      !.items = items, !.hasItems = hasItems, !.notes = notes])

\* variant: only DELIVERED orders are locked against update
UpdateFindOnlyDelivered(s) ==
  LET r == req[s]
      existingOrder == RepoFindById(r.id) IN
  /\ r.pc = "u_find"
  /\ IF existingOrder = NoOrder
       THEN Finish(s, r, "null", NoOrder)
       ELSE IF existingOrder.status = DELIVERED
         THEN Finish(s, [r EXCEPT !.existing = existingOrder], "BadRequest", NoOrder)
         ELSE Set(s, [r EXCEPT !.existing = existingOrder, !.pc = "u_persist"])
  /\ UNCHANGED <<orders, inventoryCache, uuid, now, useRealBroker, useRealInventoryApi, channel>>

\* variant: a missing order is answered with BadRequestException instead of null
UpdateFindMissingIsBadRequest(s) ==
  LET r == req[s]
      existingOrder == RepoFindById(r.id) IN
  /\ r.pc = "u_find"
  /\ IF existingOrder = NoOrder
       THEN Finish(s, r, "BadRequest", NoOrder)
       ELSE IF existingOrder.status = DELIVERED \/ existingOrder.status = CANCELED
         THEN Finish(s, [r EXCEPT !.existing = existingOrder], "BadRequest", NoOrder)
         ELSE Set(s, [r EXCEPT !.existing = existingOrder, !.pc = "u_persist"])
  /\ UNCHANGED <<orders, inventoryCache, uuid, now, useRealBroker, useRealInventoryApi, channel>>

\* lines 104-115
UpdateFind(s) ==
  LET r == req[s]
      existingOrder == RepoFindById(r.id) IN
  /\ r.pc = "u_find"
  /\ IF existingOrder = NoOrder
       THEN Finish(s, r, "null", NoOrder)
       ELSE IF existingOrder.status = DELIVERED \/ existingOrder.status = CANCELED
         THEN Finish(s, [r EXCEPT !.existing = existingOrder], "BadRequest", NoOrder)
         ELSE Set(s, [r EXCEPT !.existing = existingOrder, !.pc = "u_persist"])
  /\ UNCHANGED <<orders, inventoryCache, uuid, now, useRealBroker, useRealInventoryApi, channel>>

\* the keys of the partial order of lines 129-133
UpdateFields(r) ==
  (IF r.customerId # Undefined THEN {"customerId"} ELSE {})
  \cup (IF r.notes # Undefined THEN {"notes"} ELSE {})
  \cup (IF r.hasItems THEN {"items"} ELSE {})

\* lines 118-136, OrderRepository.update
UpdatePersist(s) ==
  LET r == req[s]
      result == RepoMerge(orders[r.id], UpdateFields(r),
                          [customerId |-> r.customerId, notes |-> r.notes, items |-> r.items]) IN
  /\ r.pc = "u_persist"
  /\ IF r.id \notin DOMAIN orders
       THEN /\ Finish(s, r, "null", NoOrder)
            /\ UNCHANGED orders
       ELSE /\ orders' = MapSet(orders, r.id, result)
            /\ Set(s, [r EXCEPT !.pc = "u_publish", !.newOrder = result,
                                !.log = Append(@, LogStore("store.update", result))])
  /\ UNCHANGED <<inventoryCache, uuid, now, useRealBroker, useRealInventoryApi, channel>>

\* lines 138-144
UpdatePublish(s) ==
  LET r == req[s] IN
  /\ r.pc = "u_publish"
  /\ \E oks \in [1..1 -> PublishOutcomes] :
       Finish(s, [r EXCEPT !.log = @ \o WithOutcomes(<<LogOrderEvent(ORDER_UPDATED, r.newOrder)>>, oks)],
              "order", r.newOrder)
  /\ UNCHANGED <<orders, inventoryCache, uuid, now, useRealBroker, useRealInventoryApi, channel>>

\* ------------------------------------------------------------ updateShipping
StartUpdateShipping(s) ==
  \E id \in OrderIds, dto \in ShippingDtos :
    Begin(s, [IdleReq EXCEPT !.op = "updateShipping", !.pc = "sh_find", !.id = id,
                             !.shipping = dto])

\* lines 148-155
UpdateShippingFind(s) ==
  LET r == req[s]
      existingOrder == RepoFindById(r.id) IN
  /\ r.pc = "sh_find"
  /\ IF existingOrder = NoOrder
       THEN Finish(s, r, "null", NoOrder)
       ELSE IF existingOrder.status = CANCELED
         THEN Finish(s, [r EXCEPT !.existing = existingOrder], "BadRequest", NoOrder)
         ELSE Set(s, [r EXCEPT !.existing = existingOrder, !.pc = "sh_persist"])
  /\ UNCHANGED <<orders, inventoryCache, uuid, now, useRealBroker, useRealInventoryApi, channel>>

\* variant: adding shipping information also moves the order to SHIPPED
UpdateShippingPersistSetsShipped(s) ==
  LET r == req[s]
      result == RepoMerge(orders[r.id], {"shippingInfo", "status"},
                          [shippingInfo |-> r.shipping, status |-> SHIPPED]) IN
  /\ r.pc = "sh_persist"
  /\ IF r.id \notin DOMAIN orders
       THEN /\ Finish(s, r, "null", NoOrder)
            /\ UNCHANGED orders
       ELSE /\ orders' = MapSet(orders, r.id, result)
            /\ Set(s, [r EXCEPT !.pc = "sh_publish", !.newOrder = result,
                                !.log = Append(@, LogStore("store.update", result))])
  /\ UNCHANGED <<inventoryCache, uuid, now, useRealBroker, useRealInventoryApi, channel>>

\* lines 157-163, OrderRepository.update
UpdateShippingPersistStaleRecord(s) ==
  LET r == req[s]
      result == RepoMerge(r.existing, {"shippingInfo"}, [shippingInfo |-> r.shipping]) IN
  /\ r.pc = "sh_persist"
  /\ IF r.id \notin DOMAIN orders
       THEN /\ Finish(s, r, "null", NoOrder)
            /\ UNCHANGED orders
       ELSE /\ orders' = MapSet(orders, r.id, result)
            /\ Set(s, [r EXCEPT !.pc = "sh_publish", !.newOrder = result,
                                !.log = Append(@, LogStore("store.update", result))])
  /\ UNCHANGED <<inventoryCache, uuid, now, useRealBroker, useRealInventoryApi, channel>>

UpdateShippingPersist(s) ==
  LET r == req[s]
      result == RepoMerge(orders[r.id], {"shippingInfo"}, [shippingInfo |-> r.shipping]) IN
  /\ r.pc = "sh_persist"
  /\ IF r.id \notin DOMAIN orders
       THEN /\ Finish(s, r, "null", NoOrder)
            /\ UNCHANGED orders
       ELSE /\ orders' = MapSet(orders, r.id, result)
            /\ Set(s, [r EXCEPT !.pc = "sh_publish", !.newOrder = result,
                                !.log = Append(@, LogStore("store.update", result))])
  /\ UNCHANGED <<inventoryCache, uuid, now, useRealBroker, useRealInventoryApi, channel>>

\* lines 165-170
UpdateShippingPublish(s) ==
  LET r == req[s] IN
  /\ r.pc = "sh_publish"
  /\ \E oks \in [1..1 -> PublishOutcomes] :
       Finish(s, [r EXCEPT !.log = @ \o WithOutcomes(<<publishOrderEvent(SHIPPED, r.newOrder)>>, oks)],
              "order", r.newOrder)
  /\ UNCHANGED <<orders, inventoryCache, uuid, now, useRealBroker, useRealInventoryApi, channel>>

\* ------------------------------------------------------------ remove
StartRemove(s) ==
  \E id \in OrderIds :
    Begin(s, [IdleReq EXCEPT !.op = "remove", !.pc = "r_find", !.id = id])

\* variant: the inventory is released whatever the status of the order is
RemoveFindAlwaysRelease(s) ==
  LET r == req[s]
      order == RepoFindById(r.id) IN
  /\ r.pc = "r_find"
  /\ IF order = NoOrder
       THEN Finish(s, r, "false", NoOrder)
       ELSE Set(s, [r EXCEPT !.existing = order, !.i = 1,
                             !.pc = IF order.items # <<>> THEN "r_release" ELSE "r_delete"])
  /\ UNCHANGED <<orders, inventoryCache, uuid, now, useRealBroker, useRealInventoryApi, channel>>

\* lines 238-244
RemoveFind(s) ==
  LET r == req[s]
      order == RepoFindById(r.id) IN
  /\ r.pc = "r_find"
  /\ IF order = NoOrder
       THEN Finish(s, r, "false", NoOrder)
       ELSE Set(s, [r EXCEPT !.existing = order, !.i = 1,
                             !.pc = IF order.status = CANCELED /\ order.items # <<>>
                                    THEN "r_release" ELSE "r_delete"])
  /\ UNCHANGED <<orders, inventoryCache, uuid, now, useRealBroker, useRealInventoryApi, channel>>

\* lines 245-250, one item per step: releaseInventory, then the inventory event
RemoveRelease(s) ==
  LET r == req[s]
      item == r.existing.items[r.i] IN
  /\ r.pc = "r_release"
  /\ \E fails \in ApiFailures :
       IF fails
         THEN ApiError(s)
         ELSE /\ inventoryCache' = releaseInventoryCache(inventoryCache, item.productId, item.quantity)
              /\ \E oks \in [1..1 -> PublishOutcomes] :
                   Set(s, [r EXCEPT !.i = r.i + 1,
                                    !.pc = IF r.i < Len(r.existing.items) THEN "r_release" ELSE "r_delete",
                                    !.log = (@ \o <<LogCall("releaseInventory", item.productId, item.quantity, TRUE)>>)
                                            \o WithOutcomes(<<publishInventoryEvent(INVENTORY_RELEASED,
                                                                 item.productId, item.quantity)>>, oks)])
              /\ UNCHANGED <<orders, uuid, now, useRealBroker, useRealInventoryApi, channel>>

\* line 253, OrderRepository.delete
RemoveDelete(s) ==
  LET r == req[s] IN
  /\ r.pc = "r_delete"
  /\ IF r.id \in DOMAIN orders
       THEN /\ orders' = MapDelete(orders, r.id)
            /\ Set(s, [r EXCEPT !.pc = "r_publish", !.log = Append(@, LogStore("store.delete", r.existing))])
       ELSE /\ Finish(s, r, "false", NoOrder)
            /\ UNCHANGED orders
  /\ UNCHANGED <<inventoryCache, uuid, now, useRealBroker, useRealInventoryApi, channel>>

\* variant: the event carries the order as it was read, status not forced
RemovePublishStoredStatus(s) ==
  LET r == req[s]
      updatedOrder == [r.existing EXCEPT !.updatedAt = now] IN
  /\ r.pc = "r_publish"
  /\ \E oks \in [1..1 -> PublishOutcomes] :
       Finish(s, [r EXCEPT !.log = @ \o WithOutcomes(<<publishOrderEvent(r.existing.status, updatedOrder)>>, oks)],
              "true", NoOrder)
  /\ UNCHANGED <<orders, inventoryCache, uuid, now, useRealBroker, useRealInventoryApi, channel>>

\* lines 255-260
RemovePublish(s) ==
  LET r == req[s]
      updatedOrder == [r.existing EXCEPT !.status = CANCELED, !.updatedAt = now] IN
  /\ r.pc = "r_publish"
  /\ \E oks \in [1..1 -> PublishOutcomes] :
       Finish(s, [r EXCEPT !.log = @ \o WithOutcomes(<<publishOrderEvent(CANCELED, updatedOrder)>>, oks)],
              "true", NoOrder)
  /\ UNCHANGED <<orders, inventoryCache, uuid, now, useRealBroker, useRealInventoryApi, channel>>

Next ==
  \E s \in Slots :
    \/ StartCreate(s)
    \/ CreateCustomer(s)
    \/ CreateValidate(s)
    \/ CreateBuild(s)
    \/ CreateReserve(s)
    \/ CreatePersist(s)
    \/ CreatePublish(s)
    \/ StartUpdateStatus(s)
    \/ UpdateStatusFind(s)
    \/ UpdateStatusRelease(s)
    \/ UpdateStatusCheck(s)
    \/ UpdateStatusReserve(s)
    \/ UpdateStatusPersist(s)
    \/ UpdateStatusPublish(s)
    \/ StartUpdate(s)
    \/ UpdateFind(s)
    \/ UpdatePersist(s)
    \/ UpdatePublish(s)
    \/ StartUpdateShipping(s)
    \/ UpdateShippingFind(s)
    \/ UpdateShippingPersist(s)
    \/ UpdateShippingPublish(s)
    \/ StartRemove(s)
    \/ RemoveFind(s)
    \/ RemoveRelease(s)
    \/ RemoveDelete(s)
    \/ RemovePublish(s)

Spec == Init /\ [][Next]_vars

\* the service with a real broker: every publishEvent call may return false
SpecBroker == InitBroker /\ [][Next]_vars

\* the service with a real broker whose first connect failed: amqplib.connect
\* threw, so connect left connection and channel unset and isConnected false
InitBrokerDown ==
  /\ orders = <<>>
  /\ inventoryCache = setupMockInventory
  /\ uuid = 0
  /\ now = 0
  /\ req = [s \in Slots |-> IdleReq]
  /\ useRealBroker = TRUE
  /\ useRealInventoryApi = FALSE
  /\ channel = FALSE

\* connect, called again by the timer of line 100 or by publishEvent (line
\* 108) while isConnected is false, succeeds and sets the channel; a call
\* that fails again changes nothing
connect ==
  /\ useRealBroker
  /\ ~channel
  /\ channel' = TRUE
  /\ UNCHANGED <<orders, inventoryCache, uuid, now, req, useRealBroker, useRealInventoryApi>>

NextBrokerDown ==
  \/ Next
  \/ connect

SpecBrokerDown == InitBrokerDown /\ [][NextBrokerDown]_vars

\* ------------------------------------------------------------ interleaved requests
\* Every await of a handler gives the event loop the chance to run a step of
\* another request.  Two requests may be in flight; a request that arrives
\* takes the first slot that is not running.
ConcSlots == {1, 2}

\* items of the one stocked product
StockedItemLists == {items \in ItemLists : \A i \in DOMAIN items : items[i].productId = pLimited}

InitConcurrent ==
  /\ orders = <<>>
  /\ inventoryCache = setupMockInventory
  /\ uuid = 0
  /\ now = 0
  /\ req = [s \in ConcSlots |-> IdleReq]
  /\ useRealBroker = FALSE
  /\ useRealInventoryApi = FALSE
  /\ channel = FALSE

BeginConcurrent(s, r) ==
  /\ ~Running(s)
  /\ \A t \in ConcSlots : t < s => Running(t)
  /\ now < MaxConcurrentOps
  /\ now' = now + 1
  /\ Set(s, [r EXCEPT !.preOrders = orders, !.preInv = inventoryCache])
  /\ UNCHANGED <<orders, inventoryCache, uuid, useRealBroker, useRealInventoryApi, channel>>

StartCreateConcurrent(s) ==
  \E items \in StockedItemLists :
    /\ uuid < MaxOrders
    /\ BeginConcurrent(s, [IdleReq EXCEPT !.op = "create", !.pc = "c_customer",
                                          !.customerId = cKnown, !.items = items, !.hasItems = TRUE])

StartUpdateStatusConcurrent(s) ==
  \E id \in OrderIds, st \in OrderStatus :
    BeginConcurrent(s, [IdleReq EXCEPT !.op = "updateStatus", !.pc = "us_find", !.id = id, !.status = st])

NextConcurrent ==
  \E s \in ConcSlots :
    \/ StartCreateConcurrent(s)
    \/ CreateCustomer(s)
    \/ CreateValidate(s)
    \/ CreateBuild(s)
    \/ CreateReserve(s)
    \/ CreatePersist(s)
    \/ CreatePublish(s)
    \/ StartUpdateStatusConcurrent(s)
    \/ UpdateStatusFind(s)
    \/ UpdateStatusRelease(s)
    \/ UpdateStatusCheck(s)
    \/ UpdateStatusReserve(s)
    \/ UpdateStatusPersist(s)
    \/ UpdateStatusPublish(s)

\* the service with the real inventory API: every inventory call may throw
SpecRealApi == InitRealApi /\ [][Next]_vars

\* create and updateStatus requests that interleave at their awaits
SpecConcurrent == InitConcurrent /\ [][NextConcurrent]_vars

\* ------------------------------------------------ all five operations
StartUpdateConcurrent(s) ==
  \E id \in OrderIds, notes \in NotesValues :
    BeginConcurrent(s, [IdleReq EXCEPT !.op = "update", !.pc = "u_find", !.id = id,
                                       !.notes = notes])

StartUpdateShippingConcurrent(s) ==
  \E id \in OrderIds, dto \in ShippingDtos :
    BeginConcurrent(s, [IdleReq EXCEPT !.op = "updateShipping", !.pc = "sh_find", !.id = id,
                                       !.shipping = dto])

StartRemoveConcurrent(s) ==
  \E id \in OrderIds :
    BeginConcurrent(s, [IdleReq EXCEPT !.op = "remove", !.pc = "r_find", !.id = id])

NextInterleaved ==
  \E s \in ConcSlots :
    \/ StartCreateConcurrent(s)
    \/ CreateCustomer(s)
    \/ CreateValidate(s)
    \/ CreateBuild(s)
    \/ CreateReserve(s)
    \/ CreatePersist(s)
    \/ CreatePublish(s)
    \/ StartUpdateStatusConcurrent(s)
    \/ UpdateStatusFind(s)
    \/ UpdateStatusRelease(s)
    \/ UpdateStatusCheck(s)
    \/ UpdateStatusReserve(s)
    \/ UpdateStatusPersist(s)
    \/ UpdateStatusPublish(s)
    \/ StartUpdateConcurrent(s)
    \/ UpdateFind(s)
    \/ UpdatePersist(s)
    \/ UpdatePublish(s)
    \/ StartUpdateShippingConcurrent(s)
    \/ UpdateShippingFind(s)
    \/ UpdateShippingPersist(s)
    \/ UpdateShippingPublish(s)
    \/ StartRemoveConcurrent(s)
    \/ RemoveFind(s)
    \/ RemoveRelease(s)
    \/ RemoveDelete(s)
    \/ RemovePublish(s)

\* requests of all five operations that interleave at their awaits
SpecInterleaved == InitConcurrent /\ [][NextInterleaved]_vars

\* ------------------------------------------- updateStatus calls on one order
\* The order that POST /orders {cKnown, [(pLimited, 1)]} stored at clock 1 and
\* PUT /orders/1/status {shipped} moved to SHIPPED at clock 2.
ShippedItems == <<[productId |-> pLimited, quantity |-> 1]>>

ShippedOrder ==
  [id |-> 1, customerId |-> cKnown, items |-> ShippedItems,
   totalPrice |-> calculateTotalPrice(ShippedItems),
   status |-> SHIPPED, createdAt |-> 1, updatedAt |-> 2,
   shippingInfo |-> Null, notes |-> Undefined]

\* the state the service is in after those two requests have run to completion
InitShipped ==
  /\ orders = <<ShippedOrder>>
  /\ inventoryCache = reserveInventoryCache(setupMockInventory, pLimited, 1)
  /\ uuid = 1
  /\ now = 2
  /\ req = [s \in ConcSlots |-> IdleReq]
  /\ useRealBroker = FALSE
  /\ useRealInventoryApi = FALSE
  /\ channel = FALSE

StartUpdateStatusRace(s) ==
  \E id \in OrderIds, st \in OrderStatus :
    /\ ~Running(s)
    /\ \A t \in ConcSlots : t < s => Running(t)
    /\ now < ShippedOrder.updatedAt + MaxConcurrentOps
    /\ now' = now + 1
    /\ Set(s, [IdleReq EXCEPT !.op = "updateStatus", !.pc = "us_find", !.id = id, !.status = st,
                              !.preOrders = orders, !.preInv = inventoryCache])
    /\ UNCHANGED <<orders, inventoryCache, uuid, useRealBroker, useRealInventoryApi, channel>>

NextStatusRace ==
  \E s \in ConcSlots :
    \/ StartUpdateStatusRace(s)
    \/ UpdateStatusFind(s)
    \/ UpdateStatusRelease(s)
    \/ UpdateStatusCheck(s)
    \/ UpdateStatusReserve(s)
    \/ UpdateStatusPersist(s)
    \/ UpdateStatusPublish(s)

\* updateStatus requests on a stored SHIPPED order that interleave at their awaits
SpecStatusRace == InitShipped /\ [][NextStatusRace]_vars

\* ====================================================================
\* Properties.  They speak about a finished request: what it was asked
\* (req[s]), the store and the inventory when it arrived (preOrders,
\* preInv), what it did (log), what it answered (res, ret), and the store
\* and the inventory now.
\* ====================================================================
Done(s, op) == req[s].pc = "done" /\ req[s].op = op

IsInventoryCall(e) == e.kind \in {"reserveInventory", "releaseInventory"}
IsStoreWrite(e)    == e.kind \in {"store.create", "store.update", "store.delete"}
IsEvent(e)         == e.kind = "publishEvent"
InventoryCalls(r)  == SelectSeq(r.log, IsInventoryCall)
Events(r)          == SelectSeq(r.log, IsEvent)

\* the stored order the request was aimed at, as it was when the request arrived
Target(r) == r.preOrders[r.id]
HasTarget(r) == r.id \in DOMAIN r.preOrders

\* total quantity of product p in an item list
QuantityOf(items, p) ==
  SumSeq([i \in 1..Len(items) |-> IF items[i].productId = p THEN items[i].quantity ELSE 0])

SixTransitions ==
  { <<CREATED, PROCESSING>>, <<PROCESSING, SHIPPED>>, <<PROCESSING, CANCELED>>,
    <<SHIPPED, DELIVERED>>, <<SHIPPED, CANCELED>>, <<CANCELED, PROCESSING>> }

\* C1: updateStatus on an existing order with stored status s and requested
\* status t fails with a validation error (BadRequestException) whenever
\* (s, t) is not one of the six transitions; whenever it returns an order,
\* (s, t) is one of the six and the stored status is t.
C1_TransitionTable ==
  \A s \in Slots :
    (Done(s, "updateStatus") /\ HasTarget(req[s])) =>
      LET r == req[s]
          pair == <<Target(r).status, r.status>> IN
      /\ (pair \notin SixTransitions => r.res = "BadRequest")
      /\ (r.res = "order" =>
            /\ pair \in SixTransitions
            /\ r.id \in DOMAIN orders
            /\ orders[r.id].status = r.status
            /\ r.ret.status = r.status)

\* a request for the status the order already has was rejected
C1_Witness ==
  \E s \in Slots :
    /\ Done(s, "updateStatus") /\ HasTarget(req[s])
    /\ Target(req[s]).status = req[s].status
    /\ req[s].res = "BadRequest"

\* C2: an updateStatus whose (current, requested) pair is not in the
\* transition table leaves the order store as it was (updatedAt included),
\* calls neither reserveInventory nor releaseInventory, leaves the available
\* inventory as it was and publishes no event.
C2_RejectedTransitionNoEffect ==
  \A s \in Slots :
    (Done(s, "updateStatus") /\ HasTarget(req[s])
       /\ <<Target(req[s]).status, req[s].status>> \notin SixTransitions) =>
      /\ orders = req[s].preOrders
      /\ inventoryCache = req[s].preInv
      /\ InventoryCalls(req[s]) = <<>>
      /\ Events(req[s]) = <<>>
      /\ req[s].log = <<>>

\* a DELIVERED order was asked to become CANCELED and the request was rejected
C2_Witness ==
  \E s \in Slots :
    /\ Done(s, "updateStatus") /\ HasTarget(req[s])
    /\ Target(req[s]).status = DELIVERED /\ req[s].status = CANCELED
    /\ req[s].res = "BadRequest"

\* some item of the list asks for more than the inventory has of its product
SomeItemShort(cache, items) ==
  \E i \in 1..Len(items) : getInventory(cache, items[i].productId) < items[i].quantity

\* C3: reactivating a CANCELED order (updateStatus to PROCESSING) when the
\* available inventory is below the quantity of at least one of its items
\* fails with a validation error, leaves the status CANCELED and leaves the
\* available inventory of every product unchanged.
C3_ReactivationAllOrNothing ==
  \A s \in Slots :
    (Done(s, "updateStatus") /\ HasTarget(req[s])
       /\ Target(req[s]).status = CANCELED /\ req[s].status = PROCESSING
       /\ SomeItemShort(req[s].preInv, Target(req[s]).items)) =>
      /\ req[s].res = "BadRequest"
      /\ orders[req[s].id].status = CANCELED
      /\ \A p \in Products : getInventory(inventoryCache, p) = getInventory(req[s].preInv, p)

\* the sequence of (productId, quantity) pairs of the events with the given key
EventPairs(r, key) ==
  LET HasKey(e) == IsEvent(e) /\ e.key = key
      ev == SelectSeq(r.log, HasKey) IN
  [i \in 1..Len(ev) |-> [productId |-> ev[i].productId, quantity |-> ev[i].quantity]]

ItemPairs(items) ==
  [i \in 1..Len(items) |-> [productId |-> items[i].productId, quantity |-> items[i].quantity]]

CountKey(r, key) == Len(EventPairs(r, key))

\* C4: a successful updateStatus to CANCELED on an order with N items
\* publishes exactly N inventory.released events, one per item with that
\* item's (productId, quantity), exactly one order.canceled event, and no
\* other event.
C4_CancelEvents ==
  \A s \in Slots :
    (Done(s, "updateStatus") /\ req[s].status = CANCELED /\ req[s].res = "order") =>
      LET r == req[s]
          items == Target(r).items IN
      /\ EventPairs(r, INVENTORY_RELEASED) = ItemPairs(items)
      /\ CountKey(r, ORDER_CANCELED) = 1
      /\ Len(Events(r)) = Len(items) + 1

\* an order with two items was canceled
C4_Witness ==
  \E s \in Slots :
    /\ Done(s, "updateStatus") /\ req[s].status = CANCELED /\ req[s].res = "order"
    /\ Len(Target(req[s]).items) = 2
    /\ Target(req[s]).items[1] # Target(req[s]).items[2]

\* C5: a successful updateStatus to CANCELED from PROCESSING or SHIPPED sets
\* the stored status to CANCELED and increases the available inventory of
\* every product by the sum of the quantities of the order's items for it.
C5_CancelReleases ==
  \A s \in Slots :
    (Done(s, "updateStatus") /\ req[s].status = CANCELED /\ req[s].res = "order") =>
      LET r == req[s] IN
      /\ Target(r).status \in {PROCESSING, SHIPPED}
      /\ orders[r.id].status = CANCELED
      /\ \A p \in Products :
           getInventory(inventoryCache, p)
             = getInventory(r.preInv, p) + QuantityOf(Target(r).items, p)

\* a SHIPPED order with two items of the same product was canceled
C5_Witness ==
  \E s \in Slots :
    /\ Done(s, "updateStatus") /\ req[s].status = CANCELED /\ req[s].res = "order"
    /\ Target(req[s]).status = SHIPPED
    /\ Len(Target(req[s]).items) = 2
    /\ QuantityOf(Target(req[s]).items, pLimited) = 3

\* C6: create with a customerId for which getCustomerById answers absent
\* fails with a validation error, calls reserveInventory for no item,
\* publishes no event and stores no order.
C6_UnknownCustomer ==
  \A s \in Slots :
    (Done(s, "create") /\ req[s].customerId = cNone) =>
      /\ req[s].res = "BadRequest"
      /\ InventoryCalls(req[s]) = <<>>
      /\ Events(req[s]) = <<>>
      /\ orders = req[s].preOrders
      /\ inventoryCache = req[s].preInv

\* a create for the unknown customer with items that are all in stock was rejected
C6_Witness ==
  \E s \in Slots :
    /\ Done(s, "create") /\ req[s].customerId = cNone
    /\ req[s].res = "BadRequest"
    /\ \A i \in 1..Len(req[s].items) : req[s].items[i].productId = pLimited
    /\ ~SomeItemShort(req[s].preInv, req[s].items)

\* C7: create fails with a validation error when any item names an unknown
\* product or asks for more than the available inventory of its product;
\* then no inventory is reserved for any item of the request, no order is
\* stored and no event is published.
C7_CreateValidation ==
  \A s \in Slots :
    (Done(s, "create")
       /\ \E i \in 1..Len(req[s].items) :
            \/ req[s].items[i].productId = pNone
            \/ getInventory(req[s].preInv, req[s].items[i].productId) < req[s].items[i].quantity) =>
      /\ req[s].res = "BadRequest"
      /\ InventoryCalls(req[s]) = <<>>
      /\ inventoryCache = req[s].preInv
      /\ orders = req[s].preOrders
      /\ Events(req[s]) = <<>>

\* a create of a known customer was rejected for its second item, the first being in stock
C7_Witness ==
  \E s \in Slots :
    /\ Done(s, "create") /\ req[s].customerId = cKnown
    /\ req[s].res = "BadRequest"
    /\ Len(req[s].items) = 2
    /\ req[s].items[1].productId = pLimited
    /\ ~(getInventory(req[s].preInv, pLimited) < req[s].items[1].quantity)

\* C8: after a successful create the available inventory of every product
\* equals its value before the call minus the sum of the quantities of the
\* new order's items for that product, also when several items name the
\* same product.
C8_CreateReservesAll ==
  \A s \in Slots :
    (Done(s, "create") /\ req[s].res = "order") =>
      \A p \in Products :
        getInventory(inventoryCache, p)
          = getInventory(req[s].preInv, p) - QuantityOf(req[s].items, p)

\* position of the first entry of the log that satisfies the test, 0 if none
FirstIndex(log, Test(_)) ==
  IF \E i \in 1..Len(log) : Test(log[i])
    THEN CHOOSE i \in 1..Len(log) : Test(log[i]) /\ \A j \in 1..(i - 1) : ~Test(log[j])
    ELSE 0

\* C9: a successful create stores and returns an order with status
\* PROCESSING and shippingInfo null and publishes exactly one event, with
\* key order.created and the stored order as payload; the order is stored
\* before the event is published.
C9_CreateResult ==
  \A s \in Slots :
    /\ (Done(s, "create") /\ req[s].res = "order") =>
         LET r == req[s] IN
         /\ r.ret.id \in DOMAIN orders /\ r.ret.id \notin DOMAIN r.preOrders
         /\ orders[r.ret.id] = r.ret
         /\ r.ret.status = PROCESSING
         /\ r.ret.shippingInfo = Null
         /\ r.ret.customerId = r.customerId
         /\ ItemPairs(r.ret.items) = ItemPairs(r.items)
         /\ Len(Events(r)) = 1
         /\ Events(r)[1].key = ORDER_CREATED
         /\ Events(r)[1].order = orders[r.ret.id]
         /\ FirstIndex(r.log, IsStoreWrite) > 0
         /\ FirstIndex(r.log, IsStoreWrite) < FirstIndex(r.log, IsEvent)
    /\ (req[s].op = "create" /\ Events(req[s]) # <<>>) =>
         /\ req[s].newOrder.id \in DOMAIN orders
         /\ orders[req[s].newOrder.id] = req[s].newOrder

\* a create with two items returned its order
C9_Witness ==
  \E s \in Slots :
    /\ Done(s, "create") /\ req[s].res = "order"
    /\ Len(req[s].items) = 2
    /\ Len(Events(req[s])) = 1

\* C10: the totalPrice of the order create returns is the sum over its items
\* of the unit price of the product times the quantity, and is not negative.
C10_TotalPrice ==
  \A s \in Slots :
    (Done(s, "create") /\ req[s].res = "order") =>
      LET items == req[s].ret.items IN
      /\ req[s].ret.totalPrice
           = SumSeq([i \in 1..Len(items) |-> ProductPrice(items[i].productId) * items[i].quantity])
      /\ req[s].ret.totalPrice >= 0
      /\ orders[req[s].ret.id].totalPrice = req[s].ret.totalPrice

\* an order of two items with different quantities was priced
C10_Witness ==
  \E s \in Slots :
    /\ Done(s, "create") /\ req[s].res = "order"
    /\ Len(req[s].items) = 2
    /\ req[s].items[1].quantity # req[s].items[2].quantity
    /\ req[s].ret.totalPrice = 15

\* what findById gives the controller: an order or null
FindResult(id) == IF findById(id) = NoOrder THEN "null" ELSE "order"

\* C11: after create returned order O, and before any other request,
\* findById(O.id) returns an order equal to O in every field.
C11_ReadAfterCreate ==
  \A s \in Slots :
    (Done(s, "create") /\ req[s].res = "order") =>
      /\ findById(req[s].ret.id) = req[s].ret
      /\ ControllerResponse(FindResult(req[s].ret.id)) = "success"

\* the second order of the store was created and returned
C11_Witness ==
  \E s \in Slots :
    /\ Done(s, "create") /\ req[s].res = "order"
    /\ req[s].ret.id = 2
    /\ 1 \in DOMAIN orders
    /\ findById(2) # findById(1)

\* C12: after remove(id) returned true, findById(id) returns absent; a
\* remove of an id that is not in the store (a second remove of the same id
\* included) returns false, without exception, inventory call or event; the
\* controller turns absent and false into NotFoundException.
C12_RemoveThenGet ==
  \A s \in Slots :
    /\ (Done(s, "remove") /\ req[s].res = "true") =>
         /\ findById(req[s].id) = NoOrder
         /\ ControllerResponse(FindResult(req[s].id)) = "NotFoundException"
    /\ (Done(s, "remove") /\ ~HasTarget(req[s])) =>
         /\ req[s].res = "false"
         /\ req[s].log = <<>>
         /\ orders = req[s].preOrders
         /\ inventoryCache = req[s].preInv
         /\ ControllerResponse(req[s].res) = "NotFoundException"

\* an id that was created and removed before was asked to be removed again
C12_Witness ==
  \E s \in Slots :
    /\ Done(s, "remove") /\ req[s].res = "false"
    /\ req[s].id <= uuid
    /\ req[s].id \notin DOMAIN orders

IsDelete(e) == e.kind = "store.delete"
IsOrderCanceledEvent(e) == IsEvent(e) /\ e.key = ORDER_CANCELED
IsReleasedEvent(e) == IsEvent(e) /\ e.key = INVENTORY_RELEASED
IsReservedEvent(e) == IsEvent(e) /\ e.key = INVENTORY_RESERVED

\* C13: remove of an existing order, whatever its status, publishes exactly
\* one order.canceled event, after the record has left the store, and the
\* order in its payload has status CANCELED; when the status was CANCELED,
\* one inventory.released event per item is published before the record
\* leaves the store.
C13_RemoveEvents ==
  \A s \in Slots :
    (Done(s, "remove") /\ HasTarget(req[s])) =>
      LET r == req[s]
          del == FirstIndex(r.log, IsDelete)
          can == FirstIndex(r.log, IsOrderCanceledEvent) IN
      /\ r.res = "true"
      /\ r.id \notin DOMAIN orders
      /\ CountKey(r, ORDER_CANCELED) = 1
      /\ del > 0 /\ del < can
      /\ r.log[can].order.status = CANCELED
      /\ r.log[can].order.id = r.id
      /\ Target(r).status = CANCELED =>
           /\ EventPairs(r, INVENTORY_RELEASED) = ItemPairs(Target(r).items)
           /\ \A i \in 1..Len(r.log) : IsReleasedEvent(r.log[i]) => i < del

\* a SHIPPED order was removed
C13_Witness ==
  \E s \in Slots :
    /\ Done(s, "remove") /\ HasTarget(req[s])
    /\ Target(req[s]).status = SHIPPED
    /\ req[s].res = "true"

\* C14: update on an order whose status is DELIVERED or CANCELED fails with
\* a validation error, leaves the stored order unchanged and publishes no
\* event.
C14_UpdateLocked ==
  \A s \in Slots :
    (Done(s, "update") /\ HasTarget(req[s])
       /\ Target(req[s]).status \in {DELIVERED, CANCELED}) =>
      /\ req[s].res = "BadRequest"
      /\ orders = req[s].preOrders
      /\ Events(req[s]) = <<>>

\* an update with items and notes on a CANCELED order was rejected
C14_Witness ==
  \E s \in Slots :
    /\ Done(s, "update") /\ HasTarget(req[s])
    /\ Target(req[s]).status = CANCELED
    /\ req[s].hasItems /\ req[s].notes # Undefined
    /\ req[s].res = "BadRequest"

\* C15: a successful update that supplies items replaces the whole item
\* collection by the supplied items, leaves totalPrice, status, id and
\* createdAt unchanged, makes no inventory call (available inventory
\* unchanged) and publishes exactly one event, order.updated, with the new
\* order state.
C15_UpdateItems ==
  \A s \in Slots :
    (Done(s, "update") /\ req[s].res = "order" /\ req[s].hasItems) =>
      LET r == req[s]
          old == Target(r)
          new == orders[r.id] IN
      /\ ItemPairs(new.items) = ItemPairs(r.items)
      /\ new.totalPrice = old.totalPrice
      /\ new.status = old.status
      /\ new.id = old.id
      /\ new.createdAt = old.createdAt
      /\ InventoryCalls(r) = <<>>
      /\ inventoryCache = r.preInv
      /\ Len(Events(r)) = 1
      /\ Events(r)[1].key = ORDER_UPDATED
      /\ Events(r)[1].order = new
      /\ r.ret = new

\* an order of two items got a single, different item
C15_Witness ==
  \E s \in Slots :
    /\ Done(s, "update") /\ req[s].res = "order" /\ req[s].hasItems
    /\ Len(Target(req[s]).items) = 2
    /\ req[s].items[1] # Target(req[s]).items[1]
    /\ req[s].items[1] # Target(req[s]).items[2]

\* C16: updateShipping on an existing order fails with a validation error,
\* changing and publishing nothing, exactly when the status is CANCELED; in
\* any other status it replaces shippingInfo, leaves status, items and
\* totalPrice unchanged, makes no inventory call and publishes exactly one
\* order.shipped event.
C16_UpdateShipping ==
  \A s \in Slots :
    (Done(s, "updateShipping") /\ HasTarget(req[s])) =>
      LET r == req[s]
          old == Target(r) IN
      /\ (r.res = "BadRequest") <=> (old.status = CANCELED)
      /\ old.status = CANCELED =>
           /\ orders = r.preOrders
           /\ inventoryCache = r.preInv
           /\ r.log = <<>>
      /\ old.status # CANCELED =>
           /\ r.res = "order"
           /\ orders[r.id].shippingInfo = r.shipping
           /\ orders[r.id].status = old.status
           /\ orders[r.id].items = old.items
           /\ orders[r.id].totalPrice = old.totalPrice
           /\ InventoryCalls(r) = <<>>
           /\ inventoryCache = r.preInv
           /\ Len(Events(r)) = 1
           /\ Events(r)[1].key = ORDER_SHIPPED

\* a PROCESSING order got shipping information and is still PROCESSING
C16_Witness ==
  \E s \in Slots :
    /\ Done(s, "updateShipping") /\ HasTarget(req[s])
    /\ Target(req[s]).status = PROCESSING
    /\ req[s].res = "order"
    /\ orders[req[s].id].status = PROCESSING
    /\ orders[req[s].id].shippingInfo # Null

OrderEventKeys ==
  {ORDER_CREATED, ORDER_UPDATED, ORDER_SHIPPED, ORDER_DELIVERED, ORDER_CANCELED}
IsOrderLevelEvent(e) == IsEvent(e) /\ e.key \in OrderEventKeys

\* C17: every successful updateStatus publishes exactly one order-level
\* event; its key follows from the new status alone (SHIPPED order.shipped,
\* DELIVERED order.delivered, CANCELED order.canceled, PROCESSING
\* order.updated) and its payload is the order as stored with the new status.
C17_StatusEvent ==
  \A s \in Slots :
    (Done(s, "updateStatus") /\ req[s].res = "order") =>
      LET r == req[s]
          ev == SelectSeq(r.log, IsOrderLevelEvent) IN
      /\ Len(ev) = 1
      /\ r.status = SHIPPED    => ev[1].key = ORDER_SHIPPED
      /\ r.status = DELIVERED  => ev[1].key = ORDER_DELIVERED
      /\ r.status = CANCELED   => ev[1].key = ORDER_CANCELED
      /\ r.status = PROCESSING => ev[1].key = ORDER_UPDATED
      /\ r.status \in {SHIPPED, DELIVERED, CANCELED, PROCESSING}
      /\ ev[1].order = orders[r.id]
      /\ ev[1].order.status = r.status

\* an order was delivered
C17_Witness ==
  \E s \in Slots :
    /\ Done(s, "updateStatus") /\ req[s].res = "order"
    /\ req[s].status = DELIVERED
    /\ Len(Events(req[s])) = 1

\* C18: a successful reactivation (CANCELED to PROCESSING) of an order with
\* N items stores status PROCESSING, decreases the available inventory of
\* every product by the sum of the quantities of the order's items for it,
\* and publishes exactly N inventory.reserved events, one per item, after
\* the status has been stored.
C18_Reactivation ==
  \A s \in Slots :
    (Done(s, "updateStatus") /\ req[s].res = "order"
       /\ Target(req[s]).status = CANCELED /\ req[s].status = PROCESSING) =>
      LET r == req[s]
          items == Target(r).items
          wr == FirstIndex(r.log, IsStoreWrite) IN
      /\ orders[r.id].status = PROCESSING
      /\ \A p \in Products :
           getInventory(inventoryCache, p) = getInventory(r.preInv, p) - QuantityOf(items, p)
      /\ EventPairs(r, INVENTORY_RESERVED) = ItemPairs(items)
      /\ wr > 0
      /\ \A i \in 1..Len(r.log) : IsReservedEvent(r.log[i]) => wr < i

\* an order with two items was reactivated
C18_Witness ==
  \E s \in Slots :
    /\ Done(s, "updateStatus") /\ req[s].res = "order"
    /\ Target(req[s]).status = CANCELED /\ req[s].status = PROCESSING
    /\ Len(Target(req[s]).items) = 2

\* some publishEvent call of the request returned false
PublishFailed(r) == \E i \in 1..Len(r.log) : IsEvent(r.log[i]) /\ ~r.log[i].ok

\* net quantity of product p the inventory calls of the request took
NetReserved(r, p) ==
  LET c == InventoryCalls(r) IN
  SumSeq([i \in 1..Len(c) |->
            IF c[i].productId # p \/ ~c[i].ok THEN 0
            ELSE IF c[i].kind = "reserveInventory" THEN c[i].quantity
            ELSE 0 - c[i].quantity])

\* C19: when a publishEvent call fails (returns false, also when the broker
\* throws), create, update, updateShipping, updateStatus and remove still
\* return their success result, the store write and the inventory calls
\* they made stay in place, and no error reaches the caller.
C19_PublishFailureSwallowed ==
  \A s \in Slots :
    (req[s].pc = "done" /\ PublishFailed(req[s])) =>
      LET r == req[s]
          w == r.log[FirstIndex(r.log, IsStoreWrite)] IN
      /\ r.op \in {"create", "update", "updateShipping", "updateStatus", "remove"}
      /\ r.res = IF r.op = "remove" THEN "true" ELSE "order"
      /\ ControllerResponse(r.res) = "success"
      /\ FirstIndex(r.log, IsStoreWrite) > 0
      /\ IF r.op = "remove"
           THEN r.id \notin DOMAIN orders
           ELSE /\ w.order.id \in DOMAIN orders
                /\ orders[w.order.id] = w.order
                /\ r.ret = w.order
      /\ \A p \in Products :
           getInventory(inventoryCache, p) = getInventory(r.preInv, p) - NetReserved(r, p)

\* a cancel released inventory, stored CANCELED, and one of its publishes failed
C19_Witness ==
  \E s \in Slots :
    /\ Done(s, "updateStatus") /\ req[s].status = CANCELED
    /\ PublishFailed(req[s])
    /\ req[s].res = "order"
    /\ inventoryCache # req[s].preInv

\* C20: update, updateShipping and updateStatus with an id that is not in
\* the store return a not-found result (NotFoundException at the
\* controller) and cause no store change, no inventory call and no event,
\* whatever the other arguments are.
C20_NotFound ==
  \A s \in Slots :
    (req[s].pc = "done" /\ req[s].op \in {"update", "updateShipping", "updateStatus"}
       /\ ~HasTarget(req[s])) =>
      /\ req[s].res = "null"
      /\ ControllerResponse(req[s].res) = "NotFoundException"
      /\ orders = req[s].preOrders
      /\ inventoryCache = req[s].preInv
      /\ req[s].log = <<>>

\* an update with items for an id that is not in the store, with another order stored
C20_Witness ==
  \E s \in Slots :
    /\ Done(s, "update") /\ ~HasTarget(req[s])
    /\ req[s].hasItems
    /\ orders # <<>>
    /\ req[s].res = "null"

\* C21: in every reachable state every stored order has a non-empty items
\* collection; no update, one that supplies an empty items list included,
\* leaves a stored order with zero items.
C21_ItemsNonEmpty ==
  \A id \in DOMAIN orders : orders[id].items # <<>>

\* an update that supplied an empty items list for a stored order was answered
C21_Witness ==
  \E s \in Slots :
    /\ req[s].pc = "done" /\ req[s].op = "ValidationPipe"
    /\ req[s].hasItems /\ req[s].items = <<>>
    /\ req[s].id \in DOMAIN orders
    /\ req[s].res = "BadRequest"
    /\ orders = req[s].preOrders

\* C22: in every reachable state each order is stored under a key equal to
\* its id, and no step of update, updateShipping or updateStatus changes the
\* id or the createdAt of a stored order.
C22_IdAndCreatedAt ==
  [][ /\ \A id \in DOMAIN orders' : orders'[id].id = id
      /\ \A id \in (DOMAIN orders) \cap (DOMAIN orders') :
           /\ orders'[id].id = orders[id].id
           /\ orders'[id].createdAt = orders[id].createdAt ]_vars

\* an order that update, updateShipping and updateStatus have all written
C22_Witness ==
  \E id \in DOMAIN orders :
    /\ orders[id].notes # Undefined
    /\ orders[id].shippingInfo # Null
    /\ orders[id].status = SHIPPED
    /\ orders[id].updatedAt > orders[id].createdAt
    /\ orders[id].id = id

\* both slots hold a finished updateStatus(CANCELED) for one order, and both
\* read the order with status PROCESSING
BothCanceled ==
  /\ \A s \in ConcSlots :
        /\ req[s].pc = "done" /\ req[s].op = "updateStatus"
        /\ req[s].status = CANCELED
        /\ req[s].existing.status = PROCESSING
  /\ req[1].id = req[2].id

\* C23: requests on one order are not serialized: two updateStatus(CANCELED)
\* calls that both read status PROCESSING both pass the validation, both
\* release the inventory of every item and both write; the quantities of the
\* order are added to the available inventory twice and two order.canceled
\* events are published.
C23_DoubleCancel ==
  BothCanceled =>
    LET items == req[1].existing.items IN
    /\ \A s \in ConcSlots :
         /\ req[s].res = "order"
         /\ [i \in 1..Len(InventoryCalls(req[s])) |->
               <<InventoryCalls(req[s])[i].kind, InventoryCalls(req[s])[i].productId,
                 InventoryCalls(req[s])[i].quantity>>]
            = [i \in 1..Len(items) |-> <<"releaseInventory", items[i].productId, items[i].quantity>>]
         /\ Len(SelectSeq(req[s].log, IsStoreWrite)) = 1
         /\ CountKey(req[s], ORDER_CANCELED) = 1
    /\ orders[req[1].id].status = CANCELED
    \* when the create of the order and the two cancels are all the requests
    \* there were, the inventory ends above the initial stock
    /\ (now = 3 /\ QuantityOf(items, pLimited) <= LimitedStock) =>
         getInventory(inventoryCache, pLimited)
           = (LimitedStock - QuantityOf(items, pLimited)) + 2 * QuantityOf(items, pLimited)

\* two cancels of a two-item order both went through
C23_Witness ==
  /\ DOMAIN req = ConcSlots
  /\ BothCanceled
  /\ Len(req[1].existing.items) = 2
  /\ req[1].res = "order" /\ req[2].res = "order"
  /\ now = 3
  /\ getInventory(inventoryCache, pLimited)
       = LimitedStock + QuantityOf(req[1].existing.items, pLimited)

\* C24: with requests run to completion one after the other, whenever the
\* stored status of an order differs between two consecutive store states
\* the (old, new) pair is in the transition table; an order with status
\* DELIVERED keeps it for as long as it is stored.
C24_StatusChangesInTable ==
  [][ \A id \in (DOMAIN orders) \cap (DOMAIN orders') :
        /\ orders'[id].status # orders[id].status =>
             <<orders[id].status, orders'[id].status>> \in SixTransitions
        /\ orders[id].status = DELIVERED => orders'[id].status = DELIVERED ]_vars

\* a DELIVERED order was asked to become CANCELED and is still DELIVERED
C24_Witness ==
  \E s \in Slots :
    /\ Done(s, "updateStatus") /\ HasTarget(req[s])
    /\ Target(req[s]).status = DELIVERED
    /\ req[s].status = CANCELED
    /\ orders[req[s].id].status = DELIVERED

\* C25: for an order whose status is DELIVERED no operation other than
\* remove changes a field of the stored order or publishes an event.
C25_DeliveredFrozen ==
  \A s \in Slots :
    (req[s].pc = "done" /\ req[s].op \in {"update", "updateShipping", "updateStatus"}
       /\ HasTarget(req[s]) /\ Target(req[s]).status = DELIVERED) =>
      /\ orders = req[s].preOrders
      /\ Events(req[s]) = <<>>

\* C28: a successful updateStatus whose new status is not CANCELED and which
\* is not a reactivation makes no inventory call, leaves the available
\* inventory unchanged, publishes no inventory event and changes only the
\* status and updatedAt of the order.
C28_PlainTransitionFrame ==
  \A s \in Slots :
    (Done(s, "updateStatus") /\ req[s].res = "order" /\ req[s].status # CANCELED
       /\ ~(Target(req[s]).status = CANCELED /\ req[s].status = PROCESSING)) =>
      LET r == req[s]
          old == Target(r)
          new == orders[r.id] IN
      /\ InventoryCalls(r) = <<>>
      /\ inventoryCache = r.preInv
      /\ \A i \in 1..Len(r.log) : IsEvent(r.log[i]) => IsOrderLevelEvent(r.log[i])
      /\ new.items = old.items
      /\ new.totalPrice = old.totalPrice
      /\ new.shippingInfo = old.shippingInfo
      /\ new.customerId = old.customerId
      /\ new.notes = old.notes
      /\ new.id = old.id /\ new.createdAt = old.createdAt
      /\ new.status = r.status
      /\ orders = [r.preOrders EXCEPT ![r.id] = new]

\* an order of two items was delivered
C28_Witness ==
  \E s \in Slots :
    /\ Done(s, "updateStatus") /\ req[s].res = "order"
    /\ req[s].status = DELIVERED
    /\ Len(Target(req[s]).items) = 2
    /\ inventoryCache = req[s].preInv

C30_UpdateStatusOrder ==
  \A s \in Slots :
    (Done(s, "updateStatus") /\ HasTarget(req[s])) =>
      LET r == req[s]
          items == Target(r).items
          n == Len(InventoryCalls(r))
          w == FirstIndex(r.log, IsStoreWrite) IN
      /\ <<Target(r).status, r.status>> \notin SixTransitions => r.log = <<>>
      /\ \A i \in 1..Len(r.log) : IsInventoryCall(r.log[i]) <=> i <= n
      /\ n <= Len(items)
      /\ \A i \in 1..n : /\ r.log[i].productId = items[i].productId
                         /\ r.log[i].quantity = items[i].quantity
      /\ r.res = "order" =>
           /\ w = n + 1
           /\ Len(r.log) >= n + 2
           /\ IsOrderLevelEvent(r.log[n + 2])
           /\ \A i \in (n + 3)..Len(r.log) :
                /\ IsEvent(r.log[i]) /\ ~IsOrderLevelEvent(r.log[i])
                /\ r.log[i].productId = items[i - (n + 2)].productId
                /\ r.log[i].quantity = items[i - (n + 2)].quantity
           /\ (r.status = CANCELED \/ Target(r).status = CANCELED) =>
                Len(r.log) = n + 2 + Len(items)
      /\ r.res # "order" => w = 0 /\ Events(r) = <<>>

\* a reactivation of a two-item order: two reserves, the write, three events
C30_Witness ==
  \E s \in Slots :
    /\ Done(s, "updateStatus") /\ req[s].res = "order"
    /\ Target(req[s]).status = CANCELED
    /\ Len(Target(req[s]).items) = 2
    /\ Len(req[s].log) = 6

\* a create that ended with the error of a reserveInventory call: the order
\* had been built, and item k = i is the one whose call threw
ReserveThrew(r) == r.op = "create" /\ r.pc = "done" /\ r.res = "Error" /\ r.newOrder # NoOrder

\* C26: when create fails because the reserveInventory call of the k-th item
\* throws, no order is stored and no event is published, and the
\* reservations made for items 1..k-1 stay in place: the available inventory
\* stays decreased by their quantities and nothing is released.
C26_ReserveThrows ==
  \A s \in Slots :
    ReserveThrew(req[s]) =>
      LET r == req[s]
          k == r.i
          calls == InventoryCalls(r) IN
      /\ orders = r.preOrders
      /\ r.newOrder.id \notin DOMAIN orders
      /\ Events(r) = <<>>
      /\ r.log = calls
      /\ Len(calls) = k - 1
      /\ \A i \in 1..(k - 1) :
           /\ calls[i].kind = "reserveInventory"
           /\ calls[i].productId = r.items[i].productId
           /\ calls[i].quantity = r.items[i].quantity
      /\ \A p \in Products :
           getInventory(inventoryCache, p) = getInventory(r.preInv, p) - NetReserved(r, p)

\* the call for the second item threw after the first item had been reserved
C26_Witness ==
  \E s \in Slots :
    /\ ReserveThrew(req[s])
    /\ req[s].i = 2
    /\ req[s].log[1].ok
    /\ getInventory(inventoryCache, pLimited)
         = getInventory(req[s].preInv, pLimited) - req[s].items[1].quantity

\* C27: an unexpected collaborator failure (not a not-found) raised during
\* create reaches the caller of the service unmodified and reaches the
\* boundary as a generic failure, distinguishable from the signal used for
\* rejected client input.
C27_UnexpectedFailureIsGeneric ==
  \A s \in Slots :
    (Done(s, "create") /\ req[s].res = "Error") =>
      /\ CreateResponse(req[s].res) = "InternalServerError"
      /\ CreateResponse(req[s].res) # CreateResponse("BadRequest")

\* the quantity of product p held by the stored orders that are not canceled
RECURSIVE StoredQuantity(_, _)
StoredQuantity(ids, p) ==
  IF ids = {} THEN 0
  ELSE LET id == CHOOSE x \in ids : TRUE IN
       (IF orders[id].status # CANCELED THEN QuantityOf(orders[id].items, p) ELSE 0)
         + StoredQuantity(ids \ {id}, p)

\* C31: inventory is conserved: after any sequence of create, update,
\* updateShipping, updateStatus and remove calls, each run to completion, the
\* available inventory of every product plus the quantities of that product
\* in the stored orders that are not CANCELED equals the initial stock.
C31_InventoryConserved ==
  NoneRunning =>
    \A p \in Products :
      getInventory(inventoryCache, p) + StoredQuantity(DOMAIN orders, p)
        = getInventory(setupMockInventory, p)

\* C32: reserved quantities are released at most once: cancelling an order
\* with updateStatus(CANCELED) and then removing it raises the available
\* inventory of each product, relative to its value before the cancel, by
\* exactly the order's quantity of that product. The cancel has raised it by
\* that quantity, so the remove of an order found CANCELED must leave the
\* inventory as it found it; in the run create, cancel, remove of an order
\* whose quantity was in stock the inventory ends at the initial stock.
C32_ReleasedOnce ==
  \A s \in Slots :
    (Done(s, "remove") /\ HasTarget(req[s]) /\ Target(req[s]).status = CANCELED) =>
      /\ \A p \in Products :
           getInventory(inventoryCache, p) = getInventory(req[s].preInv, p)
      /\ (now = 3 /\ uuid = 1
          /\ QuantityOf(Target(req[s]).items, pLimited) <= LimitedStock) =>
           getInventory(inventoryCache, pLimited) = LimitedStock

\* C36: the status CREATED is unreachable for stored orders: in every
\* reachable state no order in the store has status CREATED, and the
\* order.created event is published only by create, never by updateStatus.
C36_CreatedUnreachable ==
  /\ \A id \in DOMAIN orders : orders[id].status # CREATED
  /\ \A s \in Slots : \A i \in 1..Len(req[s].log) :
       (IsEvent(req[s].log[i]) /\ req[s].log[i].key = ORDER_CREATED) =>
         req[s].op = "create"
  /\ \A s \in Slots :
       (Done(s, "updateStatus") /\ req[s].status = CREATED /\ HasTarget(req[s])) =>
         req[s].res = "BadRequest"

\* an updateStatus asked for CREATED on a stored canceled order and was refused
C36_Witness ==
  \E s \in Slots :
    /\ Done(s, "updateStatus") /\ req[s].status = CREATED
    /\ HasTarget(req[s]) /\ Target(req[s]).status = CANCELED
    /\ req[s].res = "BadRequest"
    /\ orders = req[s].preOrders

\* a reactivation that found the order canceled by the request that ran
\* immediately before it: every arriving request ticks the clock, and the
\* cancel stamped updatedAt with the clock of its own arrival
ReactivatesRightAfterCancel(r) ==
  /\ r.op = "updateStatus" /\ r.pc = "done" /\ r.status = PROCESSING
  /\ HasTarget(r) /\ Target(r).status = CANCELED
  /\ Target(r).updatedAt + 1 = now

\* C37: cancel followed by reactivation is a round trip when no other request
\* runs in between: updateStatus(CANCELED) followed by updateStatus(PROCESSING)
\* always succeeds and leaves the order's status PROCESSING and the available
\* inventory of every product equal to its value before the cancel, also for
\* orders with several items of the same product. The cancel raised each
\* count by the order's quantity, so the reactivation must lower it by the
\* same; in the run create, cancel, reactivate of an order whose quantity was
\* in stock the inventory ends at the value create left.
C37_CancelReactivateRoundTrip ==
  \A s \in Slots :
    ReactivatesRightAfterCancel(req[s]) =>
      LET r == req[s] IN
      /\ r.res = "order"
      /\ r.id \in DOMAIN orders /\ orders[r.id].status = PROCESSING
      /\ orders[r.id].items = Target(r).items
      /\ \A p \in Products :
           /\ getInventory(r.preInv, p) >= QuantityOf(Target(r).items, p)
           /\ getInventory(inventoryCache, p)
                = getInventory(r.preInv, p) - QuantityOf(Target(r).items, p)
      /\ (now = 3 /\ uuid = 1
          /\ QuantityOf(Target(r).items, pLimited) <= LimitedStock) =>
           getInventory(inventoryCache, pLimited)
             = LimitedStock - QuantityOf(Target(r).items, pLimited)

\* the round trip of an order with two items of the same product that
\* together take the whole stock
C37_Witness ==
  \E s \in Slots :
    /\ ReactivatesRightAfterCancel(req[s])
    /\ req[s].res = "order"
    /\ Len(Target(req[s]).items) = 2
    /\ Target(req[s]).items[1].productId = Target(req[s]).items[2].productId
    /\ QuantityOf(Target(req[s]).items, pLimited) = LimitedStock
    /\ now = 3
    /\ getInventory(inventoryCache, pLimited) = 0

\* C39: publishEvent returns true only if the message was handed to a broker
\* channel or the mock broker is configured: a publishEvent call made while
\* the real broker is configured and no channel exists does not report
\* success.
C39_TrueOnlyIfDelivered ==
  [][\A s \in Slots :
       \A i \in (Len(req[s].log) + 1)..Len(req'[s].log) :
         (IsEvent(req'[s].log[i]) /\ req'[s].log[i].ok) =>
           (channel \/ ~useRealBroker)]_vars

\* the quantity of product p in all the stored orders
RECURSIVE SoldQuantity(_, _)
SoldQuantity(ids, p) ==
  IF ids = {} THEN 0
  ELSE LET id == CHOOSE x \in ids : TRUE IN
       QuantityOf(orders[id].items, p) + SoldQuantity(ids \ {id}, p)

\* only create requests of single-item orders have acted: the requests in the
\* slots are creates of one item, and every stored order has one item and is
\* as create stored it (an updateStatus that touched the inventory leaves or
\* will leave another status or a later updatedAt)
OnlySingleItemCreates ==
  /\ \A s \in ConcSlots : req[s].op \in {"none", "create"} /\ Len(req[s].items) <= 1
  /\ \A id \in DOMAIN orders :
       /\ Len(orders[id].items) = 1
       /\ orders[id].status = PROCESSING
       /\ orders[id].updatedAt = orders[id].createdAt

\* C34: no overselling under concurrent creates: in any interleaving of create
\* requests, each order with a single item and no other operation, the sum of
\* the quantities of a product over all the orders create has stored never
\* exceeds the product's initial stock.
C34_NoOverselling ==
  OnlySingleItemCreates =>
    \A p \in Products :
      SoldQuantity(DOMAIN orders, p) <= getInventory(setupMockInventory, p)

\* C33: also when requests interleave at their awaits, a stored status
\* DELIVERED is never overwritten by another status: no interleaving of
\* updateStatus calls on one order leads from a store state with status
\* DELIVERED to a later store state of the same order with status CANCELED,
\* SHIPPED or PROCESSING.
C33_DeliveredNeverOverwritten ==
  [][\A id \in DOMAIN orders :
       (orders[id].status = DELIVERED /\ id \in DOMAIN orders') =>
         orders'[id].status \notin {CANCELED, SHIPPED, PROCESSING}]_vars

\* the available inventory of every product is at least zero
C38_NonNegative ==
  \A p \in Products : getInventory(inventoryCache, p) >= 0

\* the step in which request s got the answer of a reserveInventory call: the
\* count went down by the quantity if it was at least the quantity, and
\* otherwise the call returned false and left the count as it was
C38_ReserveStep(s) ==
  LET n == Len(req'[s].log)
      e == req'[s].log[n] IN
  (n = Len(req[s].log) + 1 /\ e.kind = "reserveInventory") =>
    IF getInventory(inventoryCache, e.productId) >= e.quantity
      THEN /\ e.ok
           /\ getInventory(inventoryCache', e.productId)
                = getInventory(inventoryCache, e.productId) - e.quantity
      ELSE /\ ~e.ok
           /\ inventoryCache' = inventoryCache

\* C38: with the in-memory inventory, the available inventory of every
\* product is never negative in any reachable state, under any interleaving
\* of requests: reserveInventory decreases the count only when it is at least
\* the requested quantity and otherwise returns false leaving the count
\* unchanged.
C38_InventoryNeverNegative ==
  /\ []C38_NonNegative
  /\ [][\A s \in ConcSlots : C38_ReserveStep(s)]_vars

\* a reserveInventory call was refused while another request ran: the count
\* is below the quantity asked for, and not below zero
C38_Witness ==
  \E s \in ConcSlots :
    /\ req[s].log # <<>>
    /\ LET e == req[s].log[Len(req[s].log)] IN
       /\ e.kind = "reserveInventory" /\ ~e.ok
       /\ getInventory(inventoryCache, e.productId) < e.quantity
       /\ getInventory(inventoryCache, e.productId) >= 0
    /\ \E t \in ConcSlots : t # s /\ Running(t)

\* request r wrote a field other than the status: an updateShipping, or an
\* update that carries notes only
WritesOtherField(r) ==
  \/ r.op = "updateShipping"
  \/ r.op = "update" /\ r.notes # Undefined /\ ~r.hasItems /\ r.customerId = Undefined

\* C35: writes to different fields of one order do not overwrite each other:
\* when an updateShipping (or a notes-only update) and an updateStatus on the
\* same order interleave in any way and both return an order, the stored order
\* afterwards has both the new shippingInfo (or notes) and the new status.
\* The clock value 3 says that the create of the order and these two are the
\* only requests that have arrived.
C35_FieldWritesMerge ==
  \A s \in ConcSlots, t \in ConcSlots :
    (/\ now = 3
     /\ req[s].pc = "done" /\ req[s].op = "updateStatus" /\ req[s].res = "order"
     /\ req[t].pc = "done" /\ WritesOtherField(req[t]) /\ req[t].res = "order"
     /\ req[s].id = req[t].id) =>
      LET id == req[s].id IN
      /\ id \in DOMAIN orders
      /\ orders[id].status = req[s].status
      /\ req[t].op = "updateShipping" => orders[id].shippingInfo = req[t].shipping
      /\ req[t].op = "update" => orders[id].notes = req[t].notes

\* an updateShipping read the order, an updateStatus then wrote SHIPPED, and
\* the updateShipping wrote after it: the store has both
C35_Witness ==
  \E s \in ConcSlots, t \in ConcSlots :
    /\ now = 3
    /\ req[s].pc = "done" /\ req[s].op = "updateStatus" /\ req[s].res = "order"
    /\ req[t].pc = "done" /\ req[t].op = "updateShipping" /\ req[t].res = "order"
    /\ req[s].id = req[t].id
    /\ req[s].status = SHIPPED
    /\ req[t].existing.status = PROCESSING
    /\ req[t].ret.status = SHIPPED
    /\ orders[req[s].id].status = SHIPPED
    /\ orders[req[s].id].shippingInfo = req[t].shipping

\* the same for a notes-only update that wrote before the updateStatus did
C35_WitnessNotes ==
  \E s \in ConcSlots, t \in ConcSlots :
    /\ now = 3
    /\ req[s].pc = "done" /\ req[s].op = "updateStatus" /\ req[s].res = "order"
    /\ req[t].pc = "done" /\ req[t].op = "update" /\ req[t].res = "order"
    /\ req[s].id = req[t].id
    /\ req[s].existing.notes = Undefined
    /\ req[s].ret.notes = req[t].notes
====
